---- MODULE Spec2Model ----
(***************************************************************************)
(* Verification model of the archaeologist platform.                       *)
(*                                                                         *)
(* Part 1: the job queue over the key-value/sorted-set store               *)
(*         (api/app/job_client.py producer, scanner/app/job_client.py      *)
(*         consumer and worker loop).                                      *)
(* Part 2: project membership and project-scoped authorization            *)
(*         (api/app/routes/projects.py, api/db/sqlite.py, api/app/main.py, *)
(*         api/app/routes/jobs.py).                                        *)
(* Part 3: the process-wide singleton factories                            *)
(*         (vector_db_factory.py, embedding_factory.py).                   *)
(* Part 4: the retrieval service: chunking, ingestion and search           *)
(*         (rag_service.py, chunker.py).                                   *)
(*                                                                         *)
(* Every part has its own specification; the variables of the other parts  *)
(* stay at their initial value under it.                                   *)
(***************************************************************************)
EXTENDS Integers, Sequences, FiniteSets, TLC

(***************************************************************************)
(* Bounds of the model.                                                    *)
(***************************************************************************)
NumJobs == 2
NumLoops == 1
MaxRestarts == 1
MaxSharedCalls == 3
MaxTicks == 2
MaxMaxRetries == 1
StartClock == 1790000000
ExecCap == 3
MaxCleanups == 1
MaxFailures == 1
NumProjects == 1
NumUsers == 3
NumNodes == 1
MaxRequests == 4
NumTasks == 2
MaxResets == 1
MaxInstances == 3
MaxRagOps == 3
NumLakes == 2
MaxEntries == 2
MaxLakeOps == 3
MaxSegments == 3
MaxChunkCalls == 1

(***************************************************************************)
(* Program constants.                                                      *)
(***************************************************************************)
Divisor == 1000000
JOB_TIMEOUT == 3600
DefaultMaxRetries == 3
JOB_POLL_INTERVAL == 5
CHUNK_SIZE == 512
CHUNK_OVERLAP == 50
MIN_CHUNK_SIZE == 100
NameLimit == 100
DefaultLimit == 10
TokenBase == 1000

Jobs == 1..NumJobs
Loops == 1..NumLoops
\* the start_worker calls made on the one client: those of the loops, and
\* the calls made again after stop_worker
StartCalls == 1..(NumLoops + MaxRestarts)
JobType == {"file_processing", "batch_processing", "investigation"}
Priorities == {"urgent", "high", "normal", "low"}

Projects == 1..NumProjects
Users == 1..NumUsers
Nodes == 1..NumNodes
Roles == {"owner", "admin", "member", "viewer"}
Tasks == 1..NumTasks

VECTORDB_COLLECTION_PREFIX == <<"archaeologist">>
ProjectNames == {<<"p">>, <<"P">>, <<"p", "_", "q">>}
FileNames == {[id |-> 1, stem |-> <<"a">>, ext |-> "py"],
              [id |-> 2, stem |-> <<"a">>, ext |-> "md"]}
Docs == {<<8>>, <<150>>, <<60, 600>>}
SegmentSizes == {20, 60, 150, 400, 600}
ChunkDocs == UNION {[1..n -> SegmentSizes] : n \in 1..MaxSegments}
Limits == {1, DefaultLimit}
Thresholds == {0, 7}
Scores == {0, 8}

Lakes == 1..NumLakes
EntryIds == 1..MaxEntries
DataType == {"schema", "macro", "documentation", "configuration", "logs", "other"}
DataTypeArgs == {"schema"}
NoneValue == <<"None">>
Names == {"a", "x", "", " "}
Contents == {<<"a">>, <<"a", "\r", "\n", "b">>}
ContentArgs == Contents \cup {NoneValue}
SubpathArgs == {NoneValue, <<"x">>, <<"..", "x">>}
NoneDict == [None |-> "None"]
EmptyDict == [k \in {} |-> ""]
MetadataArgs ==
    {NoneDict, [version |-> "1.0"], [data_type |-> "custom"], [tags |-> "('a',)"]}
InjectedKeys == {"original_name", "data_type", "subpath", "file_size"}
FilePaths ==
    {<<t>> \o s \o <<n>> : t \in DataTypeArgs, s \in {<<>>, <<"x">>}, n \in {"a", "x"}}
NoFile == <<"ENOENT">>
NoSideCar ==
    [id |-> 0, name |-> "", data_type |-> "", metadata |-> EmptyDict, file_path |-> <<>>]

VARIABLES
    clock,        \* wall clock, whole seconds since the epoch
    ticks,        \* number of clock advances taken (bounds the run)
    pending,      \* the sorted set JOB_QUEUE_NAME: set of [member, score]
    runningKey,   \* JOB_QUEUE_NAME:running:<id>   -> blob or NoJob
    ttlOver,      \* per running key: its SETEX ttl has run out
    completedKey, \* JOB_QUEUE_NAME:completed:<id> -> blob or NoJob
    failedKey,    \* JOB_QUEUE_NAME:failed:<id>    -> blob or NoJob
    enqueued,     \* per job: what enqueue_job returned ("no" = not called)
    running,      \* ScannerJobClient._running
    pc,           \* per worker-loop coroutine: its position
    held,         \* per loop: the job dict get_next_job returned
    fin,          \* per loop: the blob _finish_job / update_job_progress loaded
    outcome,      \* per loop: how the handler ended
    execCount,    \* per job: number of times the handler was invoked with it
    succeeded,    \* per job: the handler did the work and returned at least once
    failures,     \* number of failed store calls of the worker (bounds the run)
    cleanPc,      \* cleanup_expired_jobs: its position
    cleanKeys,    \* cleanup_expired_jobs: running keys still to visit
    cleanJob,     \* cleanup_expired_jobs: key being visited
    cleanBlob,    \* update_job_status(FAILED): job_data it is working on
    cleanups      \* number of cleanup_expired_jobs calls made (bounds the run)

VARIABLES
    projects,      \* table projects: id -> "none" (no row), "active", "inactive"
    project_users, \* table project_users: (project, user) -> [role, is_active]
    nodes,         \* table nodes: id -> -1 (no row), 0 (project_id NULL), project
    req,           \* per caller: the request handler in flight, or NoReq
    resp,          \* the response sent last
    requests       \* number of requests received (bounds the run)

VARIABLES
    vector_db,     \* VectorDatabaseFactory._vector_db: instance id, 0 for None
    embedding,     \* EmbeddingFactory._embedding: instance id, 0 for None
    nextInst,      \* number of adapter / engine objects constructed so far
    made,          \* instances connected / initialized: [kind, id, epoch]
    connected,     \* adapters connected and not disconnected
    epoch,         \* per factory: number of resets that took effect
    fpc,           \* per task: where its factory call is suspended
    flocal,        \* per task: the instance its suspended call holds
    got            \* per task: what its last factory call returned

VARIABLES
    collections,   \* vector database: names of the collections
    points,        \* vector database: the documents stored, per collection
    ingests,       \* the ingest requests processed so far
    response,      \* the response the retrieval service returned last
    ragOps         \* number of ingest and search requests (bounds the run)

VARIABLES
    dirs,            \* file system: the directories below base_path
    files,           \* file system: the bytes of each content file
    metadata_files,  \* file system: .metadata/<id>.json, parsed
    next_id,         \* number of entry ids generated so far
    lake_response,   \* what the last data-lake call returned or raised
    lakeOps          \* number of data-lake calls (bounds the run)

qvars == <<clock, ticks, pending, runningKey, ttlOver, completedKey,
           failedKey, enqueued, running, pc, held, fin, outcome,
           execCount, succeeded, failures, cleanPc, cleanKeys, cleanJob, cleanBlob, cleanups>>

pvars == <<projects, project_users, nodes, req, resp, requests>>

fvars == <<vector_db, embedding, nextInst, made, connected, epoch, fpc, flocal, got>>

rvars == <<collections, points, ingests, response, ragOps>>

VARIABLES
    chunked,         \* the last call of the chunker: its input and its chunks
    chunkCalls       \* number of calls of the chunker (bounds the run)

cvars == <<chunked, chunkCalls>>

VARIABLES
    job_row,         \* relational store: the status column of each row of jobs
    create_pc,       \* per job: where its create_job request is
    cancel_req       \* per job: where its cancelling update_job request is,
                     \* and where the job was when the row was cancelled

jvars == <<job_row, create_pc, cancel_req>>

lvars == <<dirs, files, metadata_files, next_id, lake_response, lakeOps>>

VARIABLES
    shared,          \* per module global (_db_instance, _rag_service): "None",
                     \* or the state of initialize() of the object it holds
    spc,             \* per task: where its get_database / get_rag_service call is
    sgot,            \* per task: the global it last asked for and the state of
                     \* the object at the moment it was handed over
    sharedCalls      \* number of calls made (bounds the run)

svars == <<shared, spc, sgot, sharedCalls>>

vars == <<qvars, pvars, fvars, rvars, lvars, cvars, jvars, svars>>

(***************************************************************************)
(* Job blobs.  A blob is the JSON object stored as sorted-set member or    *)
(* key value; only the fields the queue logic reads are kept (the status  *)
(* field is written but never read: which key holds a blob tells it).     *)
(* A field the JSON object lacks is "none" / -1.                           *)
(***************************************************************************)
NoJob == [id |-> 0, job_type |-> "none", priority |-> "none", max_retries |-> -1,
          retry_count |-> -1, error_message |-> "none"]

\* dict.get(field, default) for the integer fields
GetInt(v, default) == IF v = -1 THEN default ELSE v

\* job_data.get("priority", "normal")
GetPriority(blob) == IF blob.priority = "none" THEN "normal" ELSE blob.priority

\* priority_scores: the tier base (1.0 .. 4.0, default 3.0)
PriorityBase(p) ==
    CASE p = "urgent" -> 1
      [] p = "high"   -> 2
      [] p = "normal" -> 3
      [] p = "low"    -> 4
      [] OTHER        -> 3

\* _get_priority_score: base_score + timestamp / 1000000, kept exact by
\* scaling the score by the divisor: score * Divisor = base * Divisor + now
priority_score(p, now) == PriorityBase(p) * Divisor + now

\* the timestamp term of a score, scaled by the divisor
TimestampTerm(e) == e.score - PriorityBase(GetPriority(e.member)) * Divisor

\* ZADD: a member already present has its score replaced
zadd(set, m, s) == {e \in set : e.member # m} \cup {[member |-> m, score |-> s]}

\* a store that hands out the highest score first (ZPOPMAX for ZPOPMIN)
MinEntriesMutant(set) == {e \in set : \A o \in set : e.score >= o.score}

\* ZPOPMIN candidates: the lowest score.  Equal scores are ordered by the
\* member string, which begins with {"id": "<uuid>"; the uuid is random, so
\* which of the equal-scored members comes first is any of them
MinEntries(set) == {e \in set : \A o \in set : e.score <= o.score}

(***************************************************************************)
(* Initial state: empty store, no worker started.                          *)
(***************************************************************************)
InitQ ==
    /\ clock = StartClock
    /\ ticks = 0
    /\ pending = {}
    /\ runningKey = [j \in Jobs |-> NoJob]
    /\ ttlOver = [j \in Jobs |-> FALSE]
    /\ completedKey = [j \in Jobs |-> NoJob]
    /\ failedKey = [j \in Jobs |-> NoJob]
    /\ enqueued = [j \in Jobs |-> "no"]
    /\ running = FALSE
    /\ pc = [l \in StartCalls |-> "idle"]
    /\ held = [l \in StartCalls |-> NoJob]
    /\ fin = [l \in StartCalls |-> NoJob]
    /\ outcome = [l \in StartCalls |-> "none"]
    /\ execCount = [j \in Jobs |-> 0]
    /\ succeeded = [j \in Jobs |-> FALSE]
    /\ failures = 0
    /\ cleanPc = "idle"
    /\ cleanKeys = {}
    /\ cleanJob = 0
    /\ cleanBlob = NoJob
    /\ cleanups = 0

(***************************************************************************)
(* Part 2 values.  A membership row that does not exist has role "none".   *)
(* A handler in flight keeps its arguments and the role it read; a         *)
(* response keeps the route, the caller, the project concerned, the role   *)
(* the handler read ("unread" when it read none) and the status code.      *)
(***************************************************************************)
NoRow == [role |-> "none", is_active |-> FALSE]

NoReq == [op |-> "none", pc |-> "none", project |-> 0, target |-> 0,
          arg |-> "none", user_role |-> "none"]

NoResp == [route |-> "none", caller |-> 0, project |-> 0,
           user_role |-> "unread", code |-> 0]

InitP ==
    /\ projects = [p \in Projects |-> "none"]
    /\ project_users = [k \in Projects \X Users |-> NoRow]
    /\ nodes = [n \in Nodes |-> -1]
    /\ req = [u \in Users |-> NoReq]
    /\ resp = NoResp
    /\ requests = 0

InitF ==
    /\ vector_db = 0
    /\ embedding = 0
    /\ nextInst = 0
    /\ made = {}
    /\ connected = {}
    /\ epoch = [k \in {"vector_db", "embedding"} |-> 0]
    /\ fpc = [t \in Tasks |-> "idle"]
    /\ flocal = [t \in Tasks |-> 0]
    /\ got = [t \in Tasks |-> [kind |-> "none", id |-> 0, epoch |-> 0]]

InitR ==
    /\ collections = {}
    /\ points = {}
    /\ ingests = {}
    /\ response = [kind |-> "none", project |-> <<>>, file |-> 0,
                   chunks_created |-> 0, collection_name |-> <<>>,
                   limit |-> 0, score_threshold |-> 0, results |-> {}]
    /\ ragOps = 0

NoLakeResponse ==
    [op |-> "none", lake |-> 0, error |-> "none", id |-> 0,
     content |-> NoneValue, metadata |-> EmptyDict, file_path |-> <<>>,
     result |-> FALSE, arg_content |-> NoneValue, arg_metadata |-> EmptyDict]

InitL ==
    /\ dirs = {}
    /\ files = [p \in FilePaths |-> NoFile]
    /\ metadata_files = [id \in EntryIds |-> NoSideCar]
    /\ next_id = 0
    /\ lake_response = NoLakeResponse
    /\ lakeOps = 0

InitC ==
    /\ chunked = [file |-> 0, doc |-> <<>>, chunks |-> <<>>]
    /\ chunkCalls = 0

InitJ ==
    /\ job_row = [j \in Jobs |-> "none"]
    /\ create_pc = [j \in Jobs |-> "none"]
    /\ cancel_req = [j \in Jobs |-> [pc |-> "none", during |-> "none"]]

\* the module globals that are filled on first use
Globals == {"_db_instance", "_rag_service"}

NotAsked == [global |-> "none", state |-> "none"]

InitS ==
    /\ shared = [g \in Globals |-> "None"]
    /\ spc = [t \in Tasks |-> "idle"]
    /\ sgot = [t \in Tasks |-> NotAsked]
    /\ sharedCalls = 0

Init == InitQ /\ InitP /\ InitF /\ InitR /\ InitL /\ InitC /\ InitJ /\ InitS

storeVars == <<pending, runningKey, ttlOver, completedKey, failedKey>>
loopVars == <<running, pc, held, fin, outcome, execCount, succeeded, failures>>
cleanVars == <<cleanPc, cleanKeys, cleanJob, cleanBlob, cleanups>>
timeVars == <<clock, ticks>>

nonQ == <<pvars, fvars, rvars, lvars, cvars, jvars, svars>>

\* enqueue_job serializes job.job_type.value, a value of JobType; the worker
\* loop treats the three alike and the handler's result is left open, so
\* file_processing stands for them
Blob(j, p, mr, rc) ==
    [id |-> j, job_type |-> "file_processing", priority |-> p, max_retries |-> mr,
     retry_count |-> rc, error_message |-> "none"]

(***************************************************************************)
(* Producer: JobQueueClient (api/app/job_client.py).                       *)
(***************************************************************************)
\* enqueue_job: ZADD of the serialized job at its priority score, then
\* update_job_status(QUEUED), which writes nothing to the store; returns True
enqueue_job(j, p, mr) ==
    /\ enqueued[j] = "no"
    /\ \A i \in Jobs : i < j => enqueued[i] # "no"
    /\ pending' = zadd(pending, Blob(j, p, mr, -1), priority_score(p, clock))
    /\ enqueued' = [enqueued EXCEPT ![j] = "true"]
    /\ UNCHANGED <<runningKey, ttlOver, completedKey, failedKey>>
    /\ UNCHANGED <<loopVars, cleanVars, timeVars, nonQ>>

\* enqueue_job when connect() or ZADD raises: nothing is queued, the caller
\* does not get True
enqueue_job_error(j) ==
    /\ enqueued[j] = "no"
    /\ \A i \in Jobs : i < j => enqueued[i] # "no"
    /\ enqueued' = [enqueued EXCEPT ![j] = "false"]
    /\ UNCHANGED <<storeVars, loopVars, cleanVars, timeVars, nonQ>>

\* cancel_job = update_job_status(CANCELLED): deletes the running key
cancel_job(j) ==
    /\ enqueued[j] = "true"
    /\ runningKey[j] # NoJob
    /\ runningKey' = [runningKey EXCEPT ![j] = NoJob]
    /\ ttlOver' = [ttlOver EXCEPT ![j] = FALSE]
    /\ UNCHANGED <<pending, completedKey, failedKey, enqueued>>
    /\ UNCHANGED <<loopVars, cleanVars, timeVars, nonQ>>

\* cleanup_expired_jobs: KEYS running:*
cleanup_scan ==
    /\ cleanPc = "idle"
    /\ cleanups < MaxCleanups
    /\ cleanups' = cleanups + 1
    /\ cleanKeys' = {j \in Jobs : runningKey[j] # NoJob}
    /\ cleanPc' = "next"
    /\ UNCHANGED <<cleanJob, cleanBlob, storeVars, enqueued, loopVars, timeVars, nonQ>>

\* cleanup_expired_jobs: GET of the next key; a vanished key is skipped
cleanup_get(j) ==
    /\ cleanPc = "next"
    /\ j \in cleanKeys
    /\ cleanKeys' = cleanKeys \ {j}
    /\ IF runningKey[j] = NoJob
         THEN UNCHANGED <<cleanPc, cleanJob>>
         ELSE cleanPc' = "upd_get" /\ cleanJob' = j
    /\ UNCHANGED <<cleanups, cleanBlob, storeVars, enqueued, loopVars, timeVars, nonQ>>

\* cleanup_expired_jobs: end of the key list, or an exception in its own GET
cleanup_return ==
    /\ cleanPc = "next"
    /\ cleanPc' = "idle"
    /\ cleanKeys' = {}
    /\ UNCHANGED <<cleanups, cleanJob, cleanBlob, storeVars, enqueued, loopVars, timeVars, nonQ>>

\* update_job_status(FAILED): GET of the running key; without it a minimal
\* job_data {id, status} is built
update_job_status_get ==
    /\ cleanPc = "upd_get"
    /\ cleanBlob' = IF runningKey[cleanJob] # NoJob
                      THEN runningKey[cleanJob]
                      ELSE Blob(cleanJob, "none", -1, -1)
    /\ cleanPc' = "upd_write"
    /\ UNCHANGED <<cleanups, cleanKeys, cleanJob, storeVars, enqueued, loopVars, timeVars, nonQ>>

\* update_job_status(FAILED): re-queue for retry while retry_count <
\* max_retries, else SETEX of the failed key
update_job_status_write ==
    /\ cleanPc = "upd_write"
    /\ LET rc == GetInt(cleanBlob.retry_count, 0)
            mr == GetInt(cleanBlob.max_retries, DefaultMaxRetries)
       IN IF rc < mr
            THEN /\ pending' = zadd(pending,
                                    [cleanBlob EXCEPT !.retry_count = rc + 1],
                                    priority_score(GetPriority(cleanBlob), clock))
                 /\ UNCHANGED failedKey
            ELSE /\ failedKey' = [failedKey EXCEPT ![cleanJob] = cleanBlob]
                 /\ UNCHANGED pending
    /\ cleanPc' = "upd_delete"
    /\ UNCHANGED <<cleanups, cleanKeys, cleanJob, cleanBlob, runningKey, ttlOver, completedKey>>
    /\ UNCHANGED <<enqueued, loopVars, timeVars, nonQ>>

\* update_job_status(FAILED): DEL of the running key
update_job_status_delete ==
    /\ cleanPc = "upd_delete"
    /\ runningKey' = [runningKey EXCEPT ![cleanJob] = NoJob]
    /\ ttlOver' = [ttlOver EXCEPT ![cleanJob] = FALSE]
    /\ cleanPc' = "next"
    /\ cleanBlob' = NoJob
    /\ cleanJob' = 0
    /\ UNCHANGED <<cleanups, cleanKeys, pending, completedKey, failedKey>>
    /\ UNCHANGED <<enqueued, loopVars, timeVars, nonQ>>

\* update_job_status: a store call raises; it logs and returns False and
\* cleanup_expired_jobs goes on with the next key
update_job_status_error ==
    /\ cleanPc \in {"upd_get", "upd_write", "upd_delete"}
    /\ cleanPc' = "next"
    /\ cleanBlob' = NoJob
    /\ cleanJob' = 0
    /\ UNCHANGED <<cleanups, cleanKeys, storeVars, enqueued, loopVars, timeVars, nonQ>>

(***************************************************************************)
(* Consumer: ScannerJobClient (scanner/app/job_client.py).  Every store    *)
(* call of the worker loop is a step of its own, because each is an await  *)
(* at which other tasks and other processes run.                           *)
(***************************************************************************)
\* start_worker: returns at once when _running is set, else sets it and
\* enters the loop
start_worker(l) ==
    /\ pc[l] = "idle"
    /\ IF running
         THEN pc' = [pc EXCEPT ![l] = "returned"] /\ UNCHANGED running
         ELSE pc' = [pc EXCEPT ![l] = "loop"] /\ running' = TRUE
    /\ UNCHANGED <<held, fin, outcome, execCount, succeeded>>
    /\ UNCHANGED <<storeVars, enqueued, cleanVars, timeVars, nonQ>>
    /\ UNCHANGED failures

\* stop_worker: clears _running
stop_worker ==
    /\ running
    /\ running' = FALSE
    /\ UNCHANGED <<pc, held, fin, outcome, execCount, succeeded>>
    /\ UNCHANGED <<storeVars, enqueued, cleanVars, timeVars, nonQ>>
    /\ UNCHANGED failures

\* start_worker: the test of `while self._running`
loop_check(l) ==
    /\ pc[l] = "loop"
    /\ pc' = [pc EXCEPT ![l] = IF running THEN "zpopmin" ELSE "stopped"]
    /\ UNCHANGED <<running, held, fin, outcome, execCount, succeeded>>
    /\ UNCHANGED <<storeVars, enqueued, cleanVars, timeVars, nonQ>>
    /\ UNCHANGED failures

\* get_next_job: ZPOPMIN count=1; an empty queue returns None and the loop
\* sleeps
get_next_job_zpopmin(l) ==
    /\ pc[l] = "zpopmin"
    /\ IF pending = {}
         THEN /\ pc' = [pc EXCEPT ![l] = "sleep"]
              /\ UNCHANGED <<pending, held>>
         ELSE \E e \in MinEntries(pending) :
              /\ pending' = pending \ {e}
              /\ held' = [held EXCEPT ![l] = e.member]
              /\ pc' = [pc EXCEPT ![l] = "setex"]
    /\ UNCHANGED <<running, fin, outcome, execCount, succeeded>>
    /\ UNCHANGED <<runningKey, ttlOver, completedKey, failedKey>>
    /\ UNCHANGED <<enqueued, cleanVars, timeVars, nonQ>>
    /\ UNCHANGED failures

\* get_next_job: SETEX of the running key with the job's timeout
get_next_job_setex(l) ==
    /\ pc[l] = "setex"
    /\ runningKey' = [runningKey EXCEPT ![held[l].id] = held[l]]
    /\ ttlOver' = [ttlOver EXCEPT ![held[l].id] = FALSE]
    /\ pc' = [pc EXCEPT ![l] = "progress_get"]
    /\ UNCHANGED <<running, held, fin, outcome, execCount, succeeded>>
    /\ UNCHANGED <<pending, completedKey, failedKey>>
    /\ UNCHANGED <<enqueued, cleanVars, timeVars, nonQ>>
    /\ UNCHANGED failures

\* get_next_job: a store call raises; the exception is logged and None is
\* returned, so the loop sleeps; a job already popped is dropped
get_next_job_error(l) ==
    /\ failures < MaxFailures
    /\ failures' = failures + 1
    /\ pc[l] \in {"zpopmin", "setex"}
    /\ pc' = [pc EXCEPT ![l] = "sleep"]
    /\ held' = [held EXCEPT ![l] = NoJob]
    /\ UNCHANGED <<running, fin, outcome, execCount, succeeded>>
    /\ UNCHANGED <<storeVars, enqueued, cleanVars, timeVars, nonQ>>

\* asyncio.sleep(JOB_POLL_INTERVAL); continue
poll_sleep(l) ==
    /\ pc[l] = "sleep"
    /\ pc' = [pc EXCEPT ![l] = "loop"]
    /\ UNCHANGED <<running, held, fin, outcome, execCount, succeeded>>
    /\ UNCHANGED <<storeVars, enqueued, cleanVars, timeVars, nonQ>>
    /\ UNCHANGED failures

\* update_job_progress: GET of the running key; a missing key returns False
update_job_progress_get(l) ==
    /\ pc[l] = "progress_get"
    /\ IF runningKey[held[l].id] = NoJob
         THEN pc' = [pc EXCEPT ![l] = "handler"] /\ UNCHANGED fin
         ELSE /\ pc' = [pc EXCEPT ![l] = "progress_setex"]
              /\ fin' = [fin EXCEPT ![l] = runningKey[held[l].id]]
    /\ UNCHANGED <<running, held, outcome, execCount, succeeded>>
    /\ UNCHANGED <<storeVars, enqueued, cleanVars, timeVars, nonQ>>
    /\ UNCHANGED failures

\* update_job_progress: SETEX of the running key with the progress fields
update_job_progress_setex(l) ==
    /\ pc[l] = "progress_setex"
    /\ runningKey' = [runningKey EXCEPT ![held[l].id] = fin[l]]
    /\ ttlOver' = [ttlOver EXCEPT ![held[l].id] = FALSE]
    /\ fin' = [fin EXCEPT ![l] = NoJob]
    /\ pc' = [pc EXCEPT ![l] = "handler"]
    /\ UNCHANGED <<running, held, outcome, execCount, succeeded>>
    /\ UNCHANGED <<pending, completedKey, failedKey>>
    /\ UNCHANGED <<enqueued, cleanVars, timeVars, nonQ>>
    /\ UNCHANGED failures

\* update_job_progress: a store call raises; it returns False
update_job_progress_error(l) ==
    /\ failures < MaxFailures
    /\ failures' = failures + 1
    /\ pc[l] \in {"progress_get", "progress_setex"}
    /\ fin' = [fin EXCEPT ![l] = NoJob]
    /\ pc' = [pc EXCEPT ![l] = "handler"]
    /\ UNCHANGED <<running, held, outcome, execCount, succeeded>>
    /\ UNCHANGED <<storeVars, enqueued, cleanVars, timeVars, nonQ>>

\* a handler that answers an unknown job type with an error payload instead
\* of raising
process_job_returning(job, run) == IF run # "raises" \/ job.job_type \notin JobType THEN "returned" ELSE "raised"

\* start_worker is given its handler as a parameter.  JobManager.process_job
\* raises ValueError for an unknown type; its handlers of the recognized
\* types return a payload, _process_file_job also when the work failed: it
\* catches every exception and returns {"success": False, "error": ...}
\* (run "work_failed").  Any other callable may raise (run "raises").
process_job(job, run) ==
    IF job.job_type \in JobType /\ run # "raises" THEN "returned" ELSE "raised"

\* start_worker, line 254: error_msg = f"Job processing failed: {str(e)}"
error_msg(job) ==
    IF job.job_type \in JobType THEN "Job processing failed: handler error"
    ELSE "Job processing failed: Unknown job type"

\* how a call of the handler goes: the work is done, the work fails, an
\* exception leaves the handler
HandlerRuns == {"done", "work_failed", "raises"}

\* result = await job_handler(job): the handler returns or raises
job_handler(l, run) ==
    /\ pc[l] = "handler"
    /\ execCount' = [execCount EXCEPT ![held[l].id] = IF @ < ExecCap THEN @ + 1 ELSE @]
    /\ succeeded' = [succeeded EXCEPT ![held[l].id] =
                         @ \/ (process_job(held[l], run) = "returned" /\ run = "done")]
    /\ outcome' = [outcome EXCEPT ![l] =
                       IF process_job(held[l], run) = "returned"
                       THEN "completed" ELSE "failed"]
    /\ pc' = [pc EXCEPT ![l] = "finish_get"]
    /\ UNCHANGED <<running, held, fin>>
    /\ UNCHANGED <<storeVars, enqueued, cleanVars, timeVars, nonQ>>
    /\ UNCHANGED failures

\* _finish_job (complete_job / fail_job): GET of the running key; a missing
\* key returns False
finish_job_get(l) ==
    /\ pc[l] = "finish_get"
    /\ IF runningKey[held[l].id] = NoJob
         THEN /\ pc' = [pc EXCEPT ![l] = "loop"]
              /\ held' = [held EXCEPT ![l] = NoJob]
              /\ outcome' = [outcome EXCEPT ![l] = "none"]
              /\ UNCHANGED fin
         ELSE /\ pc' = [pc EXCEPT ![l] = "finish_setex"]
              /\ fin' = [fin EXCEPT ![l] = runningKey[held[l].id]]
              /\ UNCHANGED <<held, outcome>>
    /\ UNCHANGED <<running, execCount, succeeded>>
    /\ UNCHANGED <<storeVars, enqueued, cleanVars, timeVars, nonQ>>
    /\ UNCHANGED failures

\* _finish_job: SETEX of the completed key or of the failed key
finish_job_setex(l) ==
    /\ pc[l] = "finish_setex"
    /\ IF outcome[l] = "completed"
         THEN /\ completedKey' = [completedKey EXCEPT ![held[l].id] = fin[l]]
              /\ UNCHANGED failedKey
         ELSE /\ failedKey' = [failedKey EXCEPT ![held[l].id] =
                                 [fin[l] EXCEPT !.error_message = error_msg(held[l])]]
              /\ UNCHANGED completedKey
    /\ pc' = [pc EXCEPT ![l] = "finish_delete"]
    /\ UNCHANGED <<running, held, fin, outcome, execCount, succeeded>>
    /\ UNCHANGED <<pending, runningKey, ttlOver>>
    /\ UNCHANGED <<enqueued, cleanVars, timeVars, nonQ>>
    /\ UNCHANGED failures

\* _finish_job: DEL of the running key
finish_job_delete(l) ==
    /\ pc[l] = "finish_delete"
    /\ runningKey' = [runningKey EXCEPT ![held[l].id] = NoJob]
    /\ ttlOver' = [ttlOver EXCEPT ![held[l].id] = FALSE]
    /\ pc' = [pc EXCEPT ![l] = "loop"]
    /\ held' = [held EXCEPT ![l] = NoJob]
    /\ fin' = [fin EXCEPT ![l] = NoJob]
    /\ outcome' = [outcome EXCEPT ![l] = "none"]
    /\ UNCHANGED <<running, execCount, succeeded>>
    /\ UNCHANGED <<pending, completedKey, failedKey>>
    /\ UNCHANGED <<enqueued, cleanVars, timeVars, nonQ>>
    /\ UNCHANGED failures

\* _finish_job: a store call raises; it logs and returns False
finish_job_error(l) ==
    /\ failures < MaxFailures
    /\ failures' = failures + 1
    /\ pc[l] \in {"finish_get", "finish_setex", "finish_delete"}
    /\ pc' = [pc EXCEPT ![l] = "loop"]
    /\ held' = [held EXCEPT ![l] = NoJob]
    /\ fin' = [fin EXCEPT ![l] = NoJob]
    /\ outcome' = [outcome EXCEPT ![l] = "none"]
    /\ UNCHANGED <<running, execCount, succeeded>>
    /\ UNCHANGED <<storeVars, enqueued, cleanVars, timeVars, nonQ>>

(***************************************************************************)
(* Environment of the queue: the store's key expiry and the passing of     *)
(* time.                                                                   *)
(***************************************************************************)
\* the store drops a running key whose SETEX ttl has run out
expire_running(j) ==
    /\ runningKey[j] # NoJob
    /\ ttlOver[j]
    /\ runningKey' = [runningKey EXCEPT ![j] = NoJob]
    /\ ttlOver' = [ttlOver EXCEPT ![j] = FALSE]
    /\ UNCHANGED <<pending, completedKey, failedKey>>
    /\ UNCHANGED <<enqueued, loopVars, cleanVars, timeVars, nonQ>>

TickSteps == {1, JOB_TIMEOUT, Divisor}

\* a loop is between two store calls of one operation (each call is bounded
\* by the client's socket timeout), or about to pop an available job
Busy(l) ==
    \/ pc[l] \in {"setex", "progress_get", "progress_setex",
                  "finish_get", "finish_setex", "finish_delete"}
    \/ (pc[l] \in {"loop", "zpopmin", "sleep"} /\ pending # {})

\* time passes; more than a poll interval passes only while no task is
\* between store calls
Tick(d) ==
    /\ ticks < MaxTicks
    /\ d > JOB_POLL_INTERVAL => (cleanPc = "idle" /\ \A l \in Loops : ~Busy(l))
    /\ clock' = clock + d
    /\ ticks' = ticks + 1
    /\ ttlOver' = [j \in Jobs |-> ttlOver[j] \/ (runningKey[j] # NoJob /\ d >= JOB_TIMEOUT)]
    /\ UNCHANGED <<pending, runningKey, completedKey, failedKey>>
    /\ UNCHANGED <<enqueued, loopVars, cleanVars, nonQ>>

\* the worker loop's own steps
worker_step(l) ==
    \/ loop_check(l)
    \/ get_next_job_zpopmin(l)
    \/ get_next_job_setex(l)
    \/ poll_sleep(l)
    \/ update_job_progress_get(l)
    \/ update_job_progress_setex(l)
    \/ \E run \in HandlerRuns : job_handler(l, run)
    \/ finish_job_get(l)
    \/ finish_job_setex(l)
    \/ finish_job_delete(l)

\* a store call of the worker fails
worker_error(l) ==
    \/ get_next_job_error(l)
    \/ update_job_progress_error(l)
    \/ finish_job_error(l)

\* cleanup_expired_jobs, command by command
cleanup_step ==
    \/ cleanup_scan
    \/ \E j \in Jobs : cleanup_get(j)
    \/ cleanup_return
    \/ update_job_status_get
    \/ update_job_status_write
    \/ update_job_status_delete
    \/ update_job_status_error

(***************************************************************************)
(* SpecQueue: producer, worker loop with failing store calls, stop,        *)
(* cancellation and key expiry.                                            *)
(***************************************************************************)
NextQ ==
    \/ \E j \in Jobs, p \in Priorities, mr \in 0..MaxMaxRetries : enqueue_job(j, p, mr)
    \/ \E j \in Jobs : enqueue_job_error(j)
    \/ \E j \in Jobs : cancel_job(j)
    \/ \E l \in Loops : start_worker(l)
    \/ stop_worker
    \/ \E l \in Loops : worker_step(l)
    \/ \E l \in Loops : worker_error(l)
    \/ \E j \in Jobs : expire_running(j)
    \/ Tick(JOB_TIMEOUT)

SpecQueue == Init /\ [][NextQ]_vars

(***************************************************************************)
(* SpecOrder: the ordering of the pending set.  Jobs of every priority are *)
(* enqueued while time passes, the worker loop dequeues and finalizes      *)
(* them, cleanup_expired_jobs re-queues running jobs for retry.            *)
(***************************************************************************)
NextOrder ==
    \/ \E j \in Jobs, p \in Priorities : enqueue_job(j, p, MaxMaxRetries)
    \/ \E l \in Loops : start_worker(l)
    \/ \E l \in Loops : worker_step(l)
    \/ cleanup_step
    \/ \E d \in {1, Divisor} : Tick(d)

SpecOrder == Init /\ [][NextOrder]_vars

(***************************************************************************)
(* FairSpecQueue: the worker keeps running (no stop, no cancellation); the *)
(* event loop schedules the worker task, so start_worker and each next     *)
(* step of the loop are taken when they stay enabled.  Which store calls   *)
(* fail is left open.                                                      *)
(***************************************************************************)
NextLive ==
    \/ \E j \in Jobs, p \in Priorities, mr \in 0..MaxMaxRetries : enqueue_job(j, p, mr)
    \/ \E j \in Jobs : enqueue_job_error(j)
    \/ \E l \in Loops : start_worker(l)
    \/ \E l \in Loops : worker_step(l)
    \/ \E l \in Loops : worker_error(l)
    \/ \E j \in Jobs : expire_running(j)
    \/ Tick(JOB_TIMEOUT)

FairSpecQueue ==
    /\ Init
    /\ [][NextLive]_vars
    /\ \A l \in Loops : WF_vars(start_worker(l)) /\ WF_vars(worker_step(l))

(***************************************************************************)
(* FairSpecStop: start_worker and stop_worker are called in any order on   *)
(* one client, start_worker possibly again after stop_worker.  Every       *)
(* start_worker call is a task of the event loop, which schedules each     *)
(* next step of a loop that stays enabled; when the caller starts and      *)
(* stops, and which store calls fail, is left open.                        *)
(***************************************************************************)
NextStop ==
    \/ \E j \in Jobs, p \in Priorities : enqueue_job(j, p, DefaultMaxRetries)
    \/ \E l \in StartCalls : start_worker(l)
    \/ stop_worker
    \/ \E l \in StartCalls : worker_step(l)
    \/ \E l \in StartCalls : worker_error(l)

FairSpecStop ==
    /\ Init
    /\ [][NextStop]_vars
    /\ \A l \in StartCalls : WF_vars(worker_step(l))

(***************************************************************************)
(* Part 2: project membership and project-scoped authorization.            *)
(*                                                                         *)
(* A route handler is a coroutine: it runs from one database call to the   *)
(* next, and the handlers of other requests run in between.  A handler's   *)
(* first action is named after the route and covers the request up to the  *)
(* role lookup and the checks that follow it without a further database    *)
(* read of changing data; its later actions carry a suffix.                *)
(***************************************************************************)
nonP == <<qvars, fvars, rvars, lvars, cvars, jvars, svars>>

RoleArgs == Roles \cup {"bogus"}
UserArgs == Users \cup {0}
ActiveArgs == {"unset", "true", "false"}

\* SQLiteDatabase.get_user_project_role: the role of an active membership
get_user_project_role(p, u) ==
    IF /\ p \in Projects
       /\ u \in Users
       /\ project_users[<<p, u>>].role # "none"
       /\ project_users[<<p, u>>].is_active
    THEN project_users[<<p, u>>].role
    ELSE "none"

\* SQLiteDatabase.get_project_users: the active memberships of a project
db_get_project_users(p) ==
    {u \in Users : project_users[<<p, u>>].role # "none"
                   /\ project_users[<<p, u>>].is_active}

\* the row INSERT OR REPLACE leaves: the given role, is_active at its
\* column default
NewRow(role) == [role |-> role, is_active |-> TRUE]

\* SQLiteDatabase.add_user_to_project: INSERT OR REPLACE of the row
db_add_user_to_project(table, p, u, role) ==
    [table EXCEPT ![<<p, u>>] = NewRow(role)]

\* SQLiteDatabase.remove_user_from_project: UPDATE ... SET is_active = FALSE
db_remove_user_from_project(table, p, u) ==
    IF u \in Users /\ table[<<p, u>>].role # "none"
    THEN [table EXCEPT ![<<p, u>>].is_active = FALSE]
    ELSE table

\* SQLiteDatabase.update_user_project_role: UPDATE ... SET role = ?
db_update_user_project_role(table, p, u, role) ==
    IF u \in Users /\ table[<<p, u>>].role # "none"
    THEN [table EXCEPT ![<<p, u>>].role = role]
    ELSE table

\* check_project_access: the status it raises (200: none) and the role read
check_project_access(p, u, required_roles) ==
    LET user_role == get_user_project_role(p, u) IN
    [user_role |-> user_role,
     code |-> IF user_role = "none" THEN 404
              ELSE IF required_roles # {} /\ user_role \notin required_roles
                   THEN 403 ELSE 200]

Receive(u) ==
    /\ req[u] = NoReq
    /\ requests < MaxRequests
    /\ requests' = requests + 1

Respond(u, route, p, user_role, code) ==
    resp' = [route |-> route, caller |-> u, project |-> p,
             user_role |-> user_role, code |-> code]

Continue(u, op, pcNext, p, t, arg, user_role) ==
    /\ req' = [req EXCEPT ![u] = [op |-> op, pc |-> pcNext, project |-> p,
                                  target |-> t, arg |-> arg,
                                  user_role |-> user_role]]
    /\ UNCHANGED resp

At(u, op, pcAt) == req[u].op = op /\ req[u].pc = pcAt

Finish(u, code) ==
    /\ req' = [req EXCEPT ![u] = NoReq]
    /\ Respond(u, req[u].op, req[u].project, req[u].user_role, code)

\* POST /projects: the project row and the creator's owner membership
create_project(u) ==
    /\ Receive(u)
    /\ \E p \in Projects :
          /\ projects[p] = "none"
          /\ \A q \in Projects : q < p => projects[q] # "none"
          /\ projects' = [projects EXCEPT ![p] = "active"]
          /\ project_users' = db_add_user_to_project(project_users, p, u, "owner")
          /\ Respond(u, "create_project", p, "unread", 200)
    /\ UNCHANGED <<nodes, req, nonP>>

\* GET /projects/{project_id}
get_project(u, p) ==
    LET a == check_project_access(p, u, {}) IN
    /\ Receive(u)
    /\ Respond(u, "get_project", p, a.user_role,
               IF a.code # 200 THEN a.code
               ELSE IF projects[p] = "none" THEN 404 ELSE 200)
    /\ UNCHANGED <<projects, project_users, nodes, req, nonP>>

\* GET /jobs/project/{project_id}
get_project_jobs(u, p) ==
    LET user_role == get_user_project_role(p, u) IN
    /\ Receive(u)
    /\ Respond(u, "get_project_jobs", p, user_role,
               IF user_role = "none" THEN 404 ELSE 200)
    /\ UNCHANGED <<projects, project_users, nodes, req, nonP>>

\* PUT /projects/{project_id}
update_project(u, p, is_active) ==
    LET a == check_project_access(p, u, {"owner", "admin"}) IN
    /\ Receive(u)
    /\ IF a.code # 200
       THEN Respond(u, "update_project", p, a.user_role, a.code) /\ UNCHANGED req
       ELSE Continue(u, "update_project", "write", p, 0, is_active, a.user_role)
    /\ UNCHANGED <<projects, project_users, nodes, nonP>>

update_project_write(u) ==
    LET p == req[u].project IN
    /\ At(u, "update_project", "write")
    /\ projects' = IF req[u].arg = "unset" \/ projects[p] = "none"
                   THEN projects
                   ELSE [projects EXCEPT ![p] = IF req[u].arg = "true"
                                                THEN "active" ELSE "inactive"]
    /\ Finish(u, IF projects[p] = "none" THEN 404 ELSE 200)
    /\ UNCHANGED <<project_users, nodes, requests, nonP>>

\* DELETE /projects/{project_id}
delete_project(u, p) ==
    LET a == check_project_access(p, u, {"owner"}) IN
    /\ Receive(u)
    /\ IF a.code # 200
       THEN Respond(u, "delete_project", p, a.user_role, a.code) /\ UNCHANGED req
       ELSE Continue(u, "delete_project", "write", p, 0, "none", a.user_role)
    /\ UNCHANGED <<projects, project_users, nodes, nonP>>

delete_project_write(u) ==
    LET p == req[u].project IN
    /\ At(u, "delete_project", "write")
    /\ projects' = IF projects[p] = "none" THEN projects
                   ELSE [projects EXCEPT ![p] = "inactive"]
    /\ Finish(u, 200)
    /\ UNCHANGED <<project_users, nodes, requests, nonP>>

\* POST /projects/{project_id}/users
add_user_to_project(u, p, t, role) ==
    LET a == check_project_access(p, u, {"owner", "admin"}) IN
    /\ Receive(u)
    /\ IF a.code # 200
       THEN Respond(u, "add_user_to_project", p, a.user_role, a.code) /\ UNCHANGED req
       ELSE IF role \notin Roles
       THEN Respond(u, "add_user_to_project", p, a.user_role, 400) /\ UNCHANGED req
       ELSE IF t \notin Users
       THEN Respond(u, "add_user_to_project", p, a.user_role, 404) /\ UNCHANGED req
       ELSE Continue(u, "add_user_to_project", "write", p, t, role, a.user_role)
    /\ UNCHANGED <<projects, project_users, nodes, nonP>>

add_user_to_project_write(u) ==
    /\ At(u, "add_user_to_project", "write")
    /\ project_users' = db_add_user_to_project(project_users, req[u].project,
                                                req[u].target, req[u].arg)
    /\ Finish(u, 200)
    /\ UNCHANGED <<projects, nodes, requests, nonP>>

\* PUT /projects/{project_id}/users/{user_id}
update_user_project_role(u, p, t, role) ==
    LET a == check_project_access(p, u, {"owner"}) IN
    /\ Receive(u)
    /\ IF a.code # 200
       THEN Respond(u, "update_user_project_role", p, a.user_role, a.code)
            /\ UNCHANGED req
       ELSE IF role \notin Roles \/ t = u
       THEN Respond(u, "update_user_project_role", p, a.user_role, 400)
            /\ UNCHANGED req
       ELSE Continue(u, "update_user_project_role", "write", p, t, role, a.user_role)
    /\ UNCHANGED <<projects, project_users, nodes, nonP>>

update_user_project_role_write(u) ==
    /\ At(u, "update_user_project_role", "write")
    /\ project_users' = db_update_user_project_role(project_users, req[u].project,
                                                     req[u].target, req[u].arg)
    /\ Finish(u, 200)
    /\ UNCHANGED <<projects, nodes, requests, nonP>>

\* DELETE /projects/{project_id}/users/{user_id}
remove_user_from_project(u, p, t) ==
    LET a == check_project_access(p, u, {}) IN
    /\ Receive(u)
    /\ IF a.code # 200
       THEN Respond(u, "remove_user_from_project", p, a.user_role, a.code)
            /\ UNCHANGED req
       ELSE IF t # u /\ a.user_role \notin {"owner", "admin"}
       THEN Respond(u, "remove_user_from_project", p, a.user_role, 403)
            /\ UNCHANGED req
       ELSE Continue(u, "remove_user_from_project",
                     IF a.user_role = "owner" THEN "owners" ELSE "write",
                     p, t, "none", a.user_role)
    /\ UNCHANGED <<projects, project_users, nodes, nonP>>

\* the last-owner check, made when the caller is an owner
remove_user_from_project_owners(u) ==
    LET owners == {m \in db_get_project_users(req[u].project) :
                      project_users[<<req[u].project, m>>].role = "owner"} IN
    /\ At(u, "remove_user_from_project", "owners")
    /\ IF Cardinality(owners) <= 1
       THEN Finish(u, 400)
       ELSE req' = [req EXCEPT ![u].pc = "write"] /\ UNCHANGED resp
    /\ UNCHANGED <<projects, project_users, nodes, requests, nonP>>

remove_user_from_project_write(u) ==
    /\ At(u, "remove_user_from_project", "write")
    /\ project_users' = db_remove_user_from_project(project_users, req[u].project,
                                                     req[u].target)
    /\ Finish(u, 200)
    /\ UNCHANGED <<projects, nodes, requests, nonP>>

\* A row of table nodes in the store file: a node of a project, or of none
\* (0).  The rows are input to the node endpoints: the INSERT of
\* SQLiteDatabase.create_node names ten columns with nine placeholders and
\* raises, so the rows the endpoints find were written to the file by
\* other means.
nodes_row(n, p) ==
    /\ nodes[n] = -1
    /\ p = 0 \/ (p \in Projects /\ projects[p] # "none")
    /\ nodes' = [nodes EXCEPT ![n] = p]
    /\ UNCHANGED <<projects, project_users, req, resp, requests, nonP>>

\* the node lookup and permission check delete_node and update_node_metadata
\* share: the status raised (200: none), the node's project, the role read
node_access(u, n, allowed) ==
    IF nodes[n] = -1
    THEN [code |-> 404, project |-> 0, user_role |-> "unread"]
    ELSE IF nodes[n] = 0
    THEN [code |-> 200, project |-> 0, user_role |-> "unread"]
    ELSE LET user_role == get_user_project_role(nodes[n], u) IN
         [code |-> IF user_role = "none" \/ user_role \notin allowed
                   THEN 403 ELSE 200,
          project |-> nodes[n], user_role |-> user_role]

\* DELETE /nodes/{node_id}
delete_node(u, n) ==
    LET a == node_access(u, n, {"owner", "admin"}) IN
    /\ Receive(u)
    /\ IF a.code # 200
       THEN Respond(u, "delete_node", a.project, a.user_role, a.code)
            /\ UNCHANGED req
       ELSE Continue(u, "delete_node", "write", a.project, n, "none", a.user_role)
    /\ UNCHANGED <<projects, project_users, nodes, nonP>>

delete_node_write(u) ==
    LET n == req[u].target IN
    /\ At(u, "delete_node", "write")
    /\ nodes' = [nodes EXCEPT ![n] = -1]
    /\ Finish(u, IF nodes[n] # -1 THEN 200 ELSE 500)
    /\ UNCHANGED <<projects, project_users, requests, nonP>>

\* PUT /nodes/{node_id}/metadata
update_node_metadata(u, n) ==
    LET a == node_access(u, n, {"owner", "admin", "member"}) IN
    /\ Receive(u)
    /\ IF a.code # 200
       THEN Respond(u, "update_node_metadata", a.project, a.user_role, a.code)
            /\ UNCHANGED req
       ELSE Continue(u, "update_node_metadata", "write", a.project, n, "none",
                     a.user_role)
    /\ UNCHANGED <<projects, project_users, nodes, nonP>>

update_node_metadata_write(u) ==
    /\ At(u, "update_node_metadata", "write")
    /\ Finish(u, IF nodes[req[u].target] # -1 THEN 200 ELSE 500)
    /\ UNCHANGED <<projects, project_users, nodes, requests, nonP>>

\* POST /nodes/delete: calls delete_node without a database argument, so
\* the parameter keeps its default, which has no get_node_by_id; the
\* attribute error is answered with status 500
delete_node_with_body(u, n) ==
    /\ Receive(u)
    /\ Respond(u, "delete_node_with_body", IF nodes[n] > 0 THEN nodes[n] ELSE 0,
               "unread", 500)
    /\ UNCHANGED <<projects, project_users, nodes, req, nonP>>

(***************************************************************************)
(* SpecProj: any callers issue any project, membership and node requests;  *)
(* the handlers in flight interleave at their database calls.              *)
(***************************************************************************)
handler_step(u) ==
    \/ update_project_write(u)
    \/ delete_project_write(u)
    \/ add_user_to_project_write(u)
    \/ update_user_project_role_write(u)
    \/ remove_user_from_project_owners(u)
    \/ remove_user_from_project_write(u)
    \/ delete_node_write(u)
    \/ update_node_metadata_write(u)

NextP ==
    \/ \E u \in Users : create_project(u)
    \/ \E u \in Users, p \in Projects : get_project(u, p)
    \/ \E u \in Users, p \in Projects : get_project_jobs(u, p)
    \/ \E u \in Users, p \in Projects, a \in ActiveArgs : update_project(u, p, a)
    \/ \E u \in Users, p \in Projects : delete_project(u, p)
    \/ \E u \in Users, p \in Projects, t \in UserArgs, r \in RoleArgs :
          add_user_to_project(u, p, t, r)
    \/ \E u \in Users, p \in Projects, t \in UserArgs, r \in RoleArgs :
          update_user_project_role(u, p, t, r)
    \/ \E u \in Users, p \in Projects, t \in UserArgs :
          remove_user_from_project(u, p, t)
    \/ \E n \in Nodes, p \in Projects \cup {0} : nodes_row(n, p)
    \/ \E u \in Users, n \in Nodes : delete_node(u, n)
    \/ \E u \in Users, n \in Nodes : update_node_metadata(u, n)
    \/ \E u \in Users, n \in Nodes : delete_node_with_body(u, n)
    \/ \E u \in Users : handler_step(u)

SpecProj == Init /\ [][NextP]_vars

(***************************************************************************)
(* Part 3: the process-wide singleton factories.                           *)
(*                                                                         *)
(* Tasks are coroutines on the one event loop of the process.  A task      *)
(* runs without interruption up to an await that suspends it.  Connecting  *)
(* and disconnecting the vector-database adapter are calls to the vector   *)
(* database and suspend the caller; LocalEmbedding.initialize loads the    *)
(* model inside the coroutine and contains no await.                       *)
(***************************************************************************)
nonF == <<qvars, pvars, rvars, lvars, cvars, jvars, svars>>

Kinds == {"vector_db", "embedding"}

NoInst == [kind |-> "none", id |-> 0, epoch |-> 0]
Raised == [kind |-> "error", id |-> 0, epoch |-> 0]

\* what a factory call returns: the cached instance, read at the return
Returned(kind, id) == [kind |-> kind, id |-> id, epoch |-> epoch[kind]]

\* QdrantAdapter.connect and disconnect call the vector database; a call to
\* the vector database suspends the calling coroutine
SuspendsAtConnect == TRUE

\* VectorDatabaseFactory.get_vector_db up to `await vector_db.connect()`
get_vector_db(t) ==
    /\ fpc[t] = "idle"
    /\ IF vector_db # 0
       THEN /\ got' = [got EXCEPT ![t] = Returned("vector_db", vector_db)]
            /\ UNCHANGED <<vector_db, made, connected, fpc, flocal, nextInst>>
       ELSE /\ nextInst < MaxInstances
            /\ nextInst' = nextInst + 1
            /\ IF SuspendsAtConnect
               THEN /\ flocal' = [flocal EXCEPT ![t] = nextInst + 1]
                    /\ fpc' = [fpc EXCEPT ![t] = "connect"]
                    /\ UNCHANGED <<vector_db, made, connected, got>>
               ELSE /\ connected' = connected \cup {nextInst + 1}
                    /\ made' = made \cup {[kind |-> "vector_db", id |-> nextInst + 1,
                                           epoch |-> epoch["vector_db"]]}
                    /\ vector_db' = nextInst + 1
                    /\ got' = [got EXCEPT ![t] = Returned("vector_db", nextInst + 1)]
                    /\ UNCHANGED <<fpc, flocal>>
    /\ UNCHANGED <<embedding, epoch, nonF>>

\* connect() returned: the adapter is stored in the class and returned
get_vector_db_connected(t) ==
    /\ fpc[t] = "connect"
    /\ connected' = connected \cup {flocal[t]}
    /\ made' = made \cup {[kind |-> "vector_db", id |-> flocal[t],
                           epoch |-> epoch["vector_db"]]}
    /\ vector_db' = flocal[t]
    /\ got' = [got EXCEPT ![t] = Returned("vector_db", flocal[t])]
    /\ fpc' = [fpc EXCEPT ![t] = "idle"]
    /\ flocal' = [flocal EXCEPT ![t] = 0]
    /\ UNCHANGED <<embedding, nextInst, epoch, nonF>>

\* connect() raised: nothing is stored, the caller gets the exception
get_vector_db_connect_error(t) ==
    /\ fpc[t] = "connect"
    /\ got' = [got EXCEPT ![t] = Raised]
    /\ fpc' = [fpc EXCEPT ![t] = "idle"]
    /\ flocal' = [flocal EXCEPT ![t] = 0]
    /\ UNCHANGED <<vector_db, embedding, made, connected, nextInst, epoch, nonF>>

\* VectorDatabaseFactory.reset up to `await cls._vector_db.disconnect()`
VectorDatabaseFactory_reset(t) ==
    /\ fpc[t] = "idle"
    /\ epoch["vector_db"] < MaxResets
    /\ IF vector_db = 0
       THEN /\ epoch' = [epoch EXCEPT !["vector_db"] = @ + 1]
            /\ UNCHANGED <<vector_db, connected, fpc, flocal>>
       ELSE IF SuspendsAtConnect
       THEN /\ flocal' = [flocal EXCEPT ![t] = vector_db]
            /\ fpc' = [fpc EXCEPT ![t] = "disconnect"]
            /\ UNCHANGED <<vector_db, connected, epoch>>
       ELSE /\ connected' = connected \ {vector_db}
            /\ vector_db' = 0
            /\ epoch' = [epoch EXCEPT !["vector_db"] = @ + 1]
            /\ UNCHANGED <<fpc, flocal>>
    /\ UNCHANGED <<embedding, made, nextInst, got, nonF>>

\* disconnect() returned: the class attribute is cleared
VectorDatabaseFactory_reset_disconnected(t) ==
    /\ fpc[t] = "disconnect"
    /\ connected' = connected \ {flocal[t]}
    /\ vector_db' = 0
    /\ epoch' = [epoch EXCEPT !["vector_db"] = IF @ < MaxResets THEN @ + 1 ELSE @]
    /\ fpc' = [fpc EXCEPT ![t] = "idle"]
    /\ flocal' = [flocal EXCEPT ![t] = 0]
    /\ UNCHANGED <<embedding, made, nextInst, got, nonF>>

\* EmbeddingFactory.get_embedding: construction and initialize() run to
\* the end without suspending
get_embedding(t, embedding_type) ==
    /\ fpc[t] = "idle"
    /\ IF embedding # 0
       THEN /\ got' = [got EXCEPT ![t] = Returned("embedding", embedding)]
            /\ UNCHANGED <<embedding, made, nextInst>>
       ELSE IF embedding_type # "local"
       THEN /\ got' = [got EXCEPT ![t] = Raised]
            /\ UNCHANGED <<embedding, made, nextInst>>
       ELSE /\ nextInst < MaxInstances
            /\ nextInst' = nextInst + 1
            /\ made' = made \cup {[kind |-> "embedding", id |-> nextInst + 1,
                                   epoch |-> epoch["embedding"]]}
            /\ embedding' = nextInst + 1
            /\ got' = [got EXCEPT ![t] = Returned("embedding", nextInst + 1)]
    /\ UNCHANGED <<vector_db, connected, epoch, fpc, flocal, nonF>>

\* EmbeddingFactory.reset
EmbeddingFactory_reset(t) ==
    /\ fpc[t] = "idle"
    /\ epoch["embedding"] < MaxResets
    /\ embedding' = 0
    /\ epoch' = [epoch EXCEPT !["embedding"] = @ + 1]
    /\ UNCHANGED <<vector_db, made, connected, nextInst, fpc, flocal, got, nonF>>

(***************************************************************************)
(* SpecFactory: tasks call the two factories and their resets in any       *)
(* order; suspended calls resume in any order.                             *)
(***************************************************************************)
NextF ==
    \/ \E t \in Tasks : get_vector_db(t)
    \/ \E t \in Tasks : get_vector_db_connected(t)
    \/ \E t \in Tasks : get_vector_db_connect_error(t)
    \/ \E t \in Tasks : VectorDatabaseFactory_reset(t)
    \/ \E t \in Tasks : VectorDatabaseFactory_reset_disconnected(t)
    \/ \E t \in Tasks, e \in {"local", "other"} : get_embedding(t, e)
    \/ \E t \in Tasks : EmbeddingFactory_reset(t)

SpecFactory == Init /\ [][NextF]_vars

(***************************************************************************)
(* Part 4: the retrieval service: chunking, ingestion and search.          *)
(*                                                                         *)
(* A name is a sequence of characters.  A text is a sequence of tokens;    *)
(* the tokens of a file are numbered file.id * TokenBase + position, and   *)
(* token 0 is the separator "\n\n".  A document is given by the sizes of   *)
(* the segments split_text_aware cuts it into.  The score of a hit is the  *)
(* vector database's answer and is left open.                              *)
(***************************************************************************)
nonR == <<qvars, pvars, fvars, lvars, cvars, jvars, svars>>

Min(a, b) == IF a < b THEN a ELSE b

StartsWith(s, prefix) ==
    /\ Len(prefix) <= Len(s)
    /\ SubSeq(s, 1, Len(prefix)) = prefix

\* re.sub(r'[^a-zA-Z0-9_]', '_', name.lower()), character by character
NormalizeChar(c) ==
    IF c = "P" THEN "p"
    ELSE IF c = "Q" THEN "q"
    ELSE IF c \in {"p", "q", "a", "b", "_"} THEN c
    ELSE "_"

Normalize(name) == [i \in DOMAIN name |-> NormalizeChar(name[i])]

\* RAGService._normalize_collection_name; the md5 digest of an over-long
\* file name is kept as the whole file name behind a "#"
normalize_collection_name(project, file) ==
    LET collection_name == VECTORDB_COLLECTION_PREFIX \o <<"_">>
                           \o Normalize(project) \o <<"_">> \o Normalize(file.stem) IN
    IF Len(collection_name) > NameLimit
    THEN VECTORDB_COLLECTION_PREFIX \o <<"_">> \o Normalize(project)
         \o <<"_", "#">> \o file.stem \o <<file.ext>>
    ELSE collection_name

\* the tokens of segment i of a document of the file
SegmentText(file, doc, i) ==
    LET before == IF i = 1 THEN 0
                  ELSE LET S[k \in 0..(i - 1)] ==
                               IF k = 0 THEN 0 ELSE S[k - 1] + doc[k]
                       IN S[i - 1] IN
    [k \in 1..doc[i] |-> file.id * TokenBase + before + k]

\* TextChunker.count_tokens with the tokenizer loaded
count_tokens(text) == Len(text)

\* the overlap text: the last CHUNK_OVERLAP tokens of the current chunk
OverlapText(current_chunk) ==
    IF Len(current_chunk) > CHUNK_OVERLAP
    THEN SubSeq(current_chunk, Len(current_chunk) - CHUNK_OVERLAP + 1,
                Len(current_chunk))
    ELSE current_chunk

\* TextChunker.create_chunks_with_overlap: the loop over the segments from
\* segment i on, then the last chunk
RECURSIVE ChunkLoop(_, _, _, _, _)
ChunkLoop(file, doc, i, chunks, current_chunk) ==
    IF i > Len(doc)
    THEN IF current_chunk # <<>> /\ count_tokens(current_chunk) >= MIN_CHUNK_SIZE
         THEN Append(chunks, current_chunk)
         ELSE chunks
    ELSE LET segment == SegmentText(file, doc, i)
             test_chunk == current_chunk
                           \o (IF current_chunk # <<>> THEN <<0>> ELSE <<>>)
                           \o segment IN
         IF count_tokens(test_chunk) <= CHUNK_SIZE /\ current_chunk # <<>>
         THEN ChunkLoop(file, doc, i + 1, chunks, test_chunk)
         ELSE ChunkLoop(file, doc, i + 1,
                        IF current_chunk # <<>>
                           /\ count_tokens(current_chunk) >= MIN_CHUNK_SIZE
                        THEN Append(chunks, current_chunk)
                        ELSE chunks,
                        IF current_chunk # <<>>
                        THEN OverlapText(current_chunk) \o <<0>> \o segment
                        ELSE segment)

create_chunks_with_overlap(file, doc) == ChunkLoop(file, doc, 1, <<>>, <<>>)

NoResponse == [kind |-> "none", project |-> <<>>, file |-> 0,
               chunks_created |-> 0, collection_name |-> <<>>,
               limit |-> 0, score_threshold |-> 0, results |-> {}]

\* RAGService.ingest_document
ingest_document(file, project, doc) ==
    LET chunks == create_chunks_with_overlap(file, doc)
        collection_name == normalize_collection_name(project, file)
        documents == {[collection |-> collection_name, id |-> i - 1,
                       file_name |-> file.id, project |-> project,
                       content |-> chunks[i]] : i \in DOMAIN chunks} IN
    /\ ragOps < MaxRagOps
    /\ ragOps' = ragOps + 1
    /\ ingests' = ingests \cup {[file |-> file, project |-> project, doc |-> doc]}
    /\ IF chunks = <<>>
       THEN /\ response' = [NoResponse EXCEPT !.kind = "ingest",
                                               !.project = project,
                                               !.file = file.id]
            /\ UNCHANGED <<collections, points>>
       ELSE /\ collections' = collections \cup {collection_name}
            /\ points' = {pt \in points :
                             ~(pt.collection = collection_name
                               /\ pt.id \in {d.id : d \in documents})}
                         \cup documents
            /\ response' = [NoResponse EXCEPT !.kind = "ingest",
                                               !.project = project,
                                               !.file = file.id,
                                               !.chunks_created = Len(chunks),
                                               !.collection_name = collection_name]
    /\ UNCHANGED nonR

\* ingest_document when a call to the embedding engine or to the vector
\* database raises: the except branch answers with zero chunks
ingest_document_error(file, project, doc) ==
    /\ ragOps < MaxRagOps
    /\ ragOps' = ragOps + 1
    /\ create_chunks_with_overlap(file, doc) # <<>>
    /\ response' = [NoResponse EXCEPT !.kind = "ingest_error",
                                       !.project = project, !.file = file.id]
    /\ UNCHANGED <<collections, points, ingests, nonR>>

\* the selections of at most k hits that a sort by descending score can
\* put first
TopK(hits, k, score) ==
    {S \in SUBSET hits :
        /\ Cardinality(S) = Min(k, Cardinality(hits))
        /\ \A a \in S, b \in hits \ S : score[a] >= score[b]}

\* RAGService.search; project <<>> stands for no project given
search(project, limit, score_threshold) ==
    LET project_collections ==
            IF project # <<>>
            THEN {col \in collections :
                     StartsWith(col, VECTORDB_COLLECTION_PREFIX \o <<"_">>
                                     \o project \o <<"_">>)}
            ELSE collections
        hits == {pt \in points : pt.collection \in project_collections} IN
    /\ ragOps < MaxRagOps
    /\ ragOps' = ragOps + 1
    /\ \E score \in [hits -> Scores] :
         \E all_results \in TopK({h \in hits : score[h] >= score_threshold},
                                 limit, score) :
            response' = [NoResponse EXCEPT
                            !.kind = "search",
                            !.project = project,
                            !.limit = limit,
                            !.score_threshold = score_threshold,
                            !.results = {[chunk_id |-> h.id,
                                          content |-> h.content,
                                          score |-> score[h],
                                          file_name |-> h.file_name,
                                          project |-> h.project] : h \in all_results}]
    /\ UNCHANGED <<collections, points, ingests, nonR>>

(***************************************************************************)
(* SpecRag: documents are ingested and searched in any order.              *)
(***************************************************************************)
NextR ==
    \/ \E f \in FileNames, p \in ProjectNames, d \in Docs : ingest_document(f, p, d)
    \/ \E f \in FileNames, p \in ProjectNames, d \in Docs :
          ingest_document_error(f, p, d)
    \/ \E p \in ProjectNames \cup {<<>>}, l \in Limits, s \in Thresholds :
          search(p, l, s)

SpecRag == Init /\ [][NextR]_vars

(***************************************************************************)
(* SpecChunk: the chunker is applied to documents of up to MaxSegments     *)
(* segments.                                                               *)
(***************************************************************************)
nonC == <<qvars, pvars, fvars, rvars, lvars, jvars, svars>>

\* TextChunker.chunk_document: the texts of the chunks of a document
chunk_document(file, doc) ==
    /\ chunkCalls < MaxChunkCalls
    /\ chunkCalls' = chunkCalls + 1
    /\ chunked' = [file |-> file.id, doc |-> doc,
                   chunks |-> create_chunks_with_overlap(file, doc)]
    /\ UNCHANGED nonC

NextC == \E file \in FileNames, doc \in ChunkDocs : chunk_document(file, doc)

SpecChunk == Init /\ [][NextC]_vars

(***************************************************************************)
(* Part 5.  The data lake (api/app/disk_data_lake.py).                     *)
(*                                                                         *)
(* The lake is a directory tree.  A path is the sequence of its            *)
(* components below base_path; a content is a sequence of characters.  A   *)
(* DiskDataLake object holds nothing but base_path, so every lake of Lakes *)
(* works on the same tree.  Entry ids are uuid4 values, here numbered in   *)
(* the order of their generation.  Metadata values are written as Python   *)
(* literals.  Time stamps are left out.                                    *)
(***************************************************************************)
nonL == <<qvars, pvars, fvars, rvars, cvars, jvars, svars>>

\* DiskDataLake.__init__: base_path / data_type.value for each DataType
data_type_dirs == {<<t>> : t \in DataType}

\* the directories _ensure_directories creates
EnsuredDirectories == {<<>>, <<".metadata">>} \cup data_type_dirs

\* _get_file_path: data_type_dirs[data_type] / subpath / name
get_file_path(data_type, subpath, name) ==
    <<data_type>> \o (IF subpath = NoneValue THEN <<>> ELSE subpath) \o <<name>>

Parent(path) == SubSeq(path, 1, Len(path) - 1)

\* str.strip() of a name
Strip(name) == IF name = " " THEN "" ELSE name

\* _validate_inputs: the error it raises, "none" when the inputs pass
validate_inputs(name, content, data_type, subpath) ==
    IF name = "" \/ Strip(name) = "" THEN "ValidationError"
    ELSE IF content = NoneValue THEN "ValidationError"
    ELSE IF data_type \notin DataType THEN "ValidationError"
    ELSE IF /\ subpath # NoneValue /\ subpath # <<>>
            /\ \/ \E i \in DOMAIN subpath : subpath[i] = ".."
               \/ subpath[1] = ""
         THEN "ValidationError"
    ELSE "none"

\* open(path, 'w', encoding='utf-8').write(text): newline=None writes every
\* "\n" as os.linesep
linesep == <<"\n">>

RECURSIVE TextWrite(_)
TextWrite(text) ==
    IF text = <<>> THEN <<>>
    ELSE (IF Head(text) = "\n" THEN linesep ELSE <<Head(text)>>)
         \o TextWrite(Tail(text))

\* open(path, 'r', encoding='utf-8').read(): newline=None reads "\r\n" and
\* "\r" as "\n"
RECURSIVE TextRead(_)
TextRead(bytes) ==
    IF bytes = <<>> THEN <<>>
    ELSE IF Head(bytes) = "\r"
         THEN <<"\n">> \o TextRead(IF Len(bytes) > 1 /\ bytes[2] = "\n"
                                    THEN Tail(Tail(bytes)) ELSE Tail(bytes))
    ELSE <<Head(bytes)>> \o TextRead(Tail(bytes))

\* json.loads(json.dumps(value)) of a metadata value: a tuple comes back as
\* a list, strings, numbers and None come back as they are
JsonValue(v) == IF v = "('a',)" THEN "['a']" ELSE v

\* json.loads(json.dumps(d)): the injected values are strings, numbers and
\* None
JsonDict(d) ==
    [k \in DOMAIN d |-> IF k \in InjectedKeys THEN d[k] ELSE JsonValue(d[k])]

\* dict.update: the keys of other replace those of d
DictUpdate(d, other) ==
    [k \in DOMAIN d \cup DOMAIN other |->
        IF k \in DOMAIN other THEN other[k] ELSE d[k]]

\* store, lines 115-122: metadata or {} updated with the four injected keys
entry_metadata(name, content, data_type, metadata, subpath) ==
    DictUpdate(IF metadata = NoneDict THEN EmptyDict ELSE metadata,
               [original_name |-> name,
                data_type |-> data_type,
                subpath |-> subpath,
                file_size |-> Len(content)])

\* the side-car of an entry as json.loads returns it
SideCar(id, name, data_type, metadata, file_path) ==
    [id |-> id, name |-> name, data_type |-> data_type,
     metadata |-> JsonDict(metadata), file_path |-> file_path]

LakeRaise(op, lake, id, error) ==
    [NoLakeResponse EXCEPT !.op = op, !.lake = lake, !.id = id, !.error = error]

\* makedirs(directory, exist_ok=True) raises when a prefix of the directory
\* is a file
MakedirsFails(directory) ==
    \E n \in 1..Len(directory) :
        /\ SubSeq(directory, 1, n) \in FilePaths
        /\ files[SubSeq(directory, 1, n)] # NoFile

Prefixes(directory) == {SubSeq(directory, 1, n) : n \in 0..Len(directory)}

\* store: _ensure_directories, _validate_inputs, makedirs of the file's
\* directory, the content file, the side-car
store(lake, name, content, data_type, metadata, subpath) ==
    LET ensured == dirs \cup EnsuredDirectories
        invalid == validate_inputs(name, content, data_type, subpath)
        entry_id == next_id + 1
        file_path == get_file_path(data_type, subpath, name)
        file_dir == Parent(file_path)
        md == entry_metadata(name, content, data_type, metadata, subpath)
    IN  /\ lakeOps < MaxLakeOps
        /\ invalid = "none" => next_id < MaxEntries
        /\ lakeOps' = lakeOps + 1
        /\ IF invalid # "none"
           THEN /\ dirs' = ensured
                /\ lake_response' = LakeRaise("store", lake, 0, invalid)
                /\ UNCHANGED <<files, metadata_files, next_id>>
           ELSE IF MakedirsFails(file_dir) \/ file_path \in ensured \cup Prefixes(file_dir)
           THEN /\ dirs' = IF MakedirsFails(file_dir) THEN ensured
                           ELSE ensured \cup Prefixes(file_dir)
                /\ next_id' = entry_id
                /\ lake_response' = LakeRaise("store", lake, 0, "DataLakeError")
                /\ UNCHANGED <<files, metadata_files>>
           ELSE /\ dirs' = ensured \cup Prefixes(file_dir)
                /\ next_id' = entry_id
                /\ files' = [files EXCEPT ![file_path] = TextWrite(content)]
                /\ metadata_files' =
                       [metadata_files EXCEPT ![entry_id] =
                           SideCar(entry_id, name, data_type, md, file_path)]
                /\ lake_response' =
                       [op |-> "store", lake |-> lake, error |-> "none",
                        id |-> entry_id, content |-> content, metadata |-> md,
                        file_path |-> file_path, result |-> FALSE,
                        arg_content |-> content, arg_metadata |-> metadata]
        /\ UNCHANGED nonL

\* store, lines 148-154: the side-car cannot be written; the content file
\* just written is removed again
store_metadata_error(lake, name, content, data_type, metadata, subpath) ==
    LET ensured == dirs \cup EnsuredDirectories
        file_path == get_file_path(data_type, subpath, name)
        file_dir == Parent(file_path)
    IN  /\ lakeOps < MaxLakeOps
        /\ next_id < MaxEntries
        /\ validate_inputs(name, content, data_type, subpath) = "none"
        /\ ~MakedirsFails(file_dir)
        /\ file_path \notin ensured \cup Prefixes(file_dir)
        /\ lakeOps' = lakeOps + 1
        /\ next_id' = next_id + 1
        /\ dirs' = ensured \cup Prefixes(file_dir)
        /\ files' = [files EXCEPT ![file_path] = NoFile]
        /\ lake_response' = LakeRaise("store", lake, 0, "DataLakeError")
        /\ UNCHANGED metadata_files
        /\ UNCHANGED nonL

\* retrieve: _load_metadata, then the content file
retrieve(lake, entry_id) ==
    LET metadata_dict == metadata_files[entry_id]
        file_path == metadata_dict.file_path
    IN  IF metadata_dict = NoSideCar
        THEN LakeRaise("retrieve", lake, entry_id, "NotFoundError")
        ELSE IF file_path \in dirs
        THEN LakeRaise("retrieve", lake, entry_id, "DataLakeError")
        ELSE IF files[file_path] = NoFile
        THEN LakeRaise("retrieve", lake, entry_id, "NotFoundError")
        ELSE [op |-> "retrieve", lake |-> lake, error |-> "none",
              id |-> metadata_dict.id, content |-> TextRead(files[file_path]),
              metadata |-> metadata_dict.metadata, file_path |-> file_path,
              result |-> FALSE, arg_content |-> NoneValue,
              arg_metadata |-> EmptyDict]

\* retrieve_by_path: the first side-car, in the order glob lists them, whose
\* file_path is the path; every answer some order gives
retrieve_by_path(lake, path) ==
    LET found == {id \in EntryIds : /\ metadata_files[id] # NoSideCar
                                    /\ metadata_files[id].file_path = path}
    IN  IF found = {}
        THEN {LakeRaise("retrieve_by_path", lake, 0, "NotFoundError")}
        ELSE {[retrieve(lake, id) EXCEPT !.op = "retrieve_by_path"] : id \in found}

retrieve_call(lake, entry_id) ==
    /\ lakeOps < MaxLakeOps
    /\ lakeOps' = lakeOps + 1
    /\ lake_response' = retrieve(lake, entry_id)
    /\ UNCHANGED <<dirs, files, metadata_files, next_id>>
    /\ UNCHANGED nonL

retrieve_by_path_call(lake, path) ==
    /\ lakeOps < MaxLakeOps
    /\ lakeOps' = lakeOps + 1
    /\ lake_response' \in retrieve_by_path(lake, path)
    /\ UNCHANGED <<dirs, files, metadata_files, next_id>>
    /\ UNCHANGED nonL

\* delete: _load_metadata, then os.remove of the content file and of the
\* side-car
delete(lake, entry_id) ==
    LET metadata_dict == metadata_files[entry_id]
        file_path == metadata_dict.file_path
    IN  /\ lakeOps < MaxLakeOps
        /\ lakeOps' = lakeOps + 1
        /\ IF metadata_dict = NoSideCar
           THEN /\ lake_response' = LakeRaise("delete", lake, entry_id, "NotFoundError")
                /\ UNCHANGED <<files, metadata_files>>
           ELSE IF file_path \in dirs
           THEN /\ lake_response' = LakeRaise("delete", lake, entry_id, "DataLakeError")
                /\ UNCHANGED <<files, metadata_files>>
           ELSE /\ files' = [files EXCEPT ![file_path] = NoFile]
                /\ metadata_files' = [metadata_files EXCEPT ![entry_id] = NoSideCar]
                /\ lake_response' =
                       [LakeRaise("delete", lake, entry_id, "none") EXCEPT
                           !.result = (files[file_path] # NoFile) \/ TRUE]
        /\ UNCHANGED <<dirs, next_id>>
        /\ UNCHANGED nonL

(***************************************************************************)
(* SpecLake: entries are stored, retrieved and deleted in any order,       *)
(* through any lake object.                                                *)
(***************************************************************************)
NextL ==
    \/ \E l \in Lakes, n \in Names, c \in ContentArgs, t \in DataTypeArgs,
          m \in MetadataArgs, s \in SubpathArgs : store(l, n, c, t, m, s)
    \/ \E l \in Lakes, n \in Names, c \in ContentArgs, t \in DataTypeArgs,
          m \in MetadataArgs, s \in SubpathArgs :
          store_metadata_error(l, n, c, t, m, s)
    \/ \E l \in Lakes, id \in EntryIds : retrieve_call(l, id)
    \/ \E l \in Lakes, p \in FilePaths : retrieve_by_path_call(l, p)
    \/ \E l \in Lakes, id \in EntryIds : delete(l, id)

SpecLake == Init /\ [][NextL]_vars

(***************************************************************************)
(* Part 6.  The rows of table jobs and the job routes                      *)
(* (api/app/routes/jobs.py, api/db/sqlite.py).                             *)
(*                                                                         *)
(* A route is a coroutine: one action per stretch between two awaited      *)
(* calls that other tasks can see.  The queue clients hold no database     *)
(* handle: none of the actions of Part 1 writes a row.                     *)
(***************************************************************************)
nonJ == <<pvars, fvars, rvars, lvars, cvars, svars>>

\* JobCreate.priority, the default
JobCreatePriority == "normal"

\* where job j is in the queue store and the worker loops
Where(j) ==
    IF \E l \in Loops : held[l].id = j
    THEN pc[CHOOSE l \in Loops : held[l].id = j]
    ELSE IF \E e \in pending : e.member.id = j THEN "pending"
    ELSE "none"

\* create_job: db.create_job inserts the row with status pending
create_job(j) ==
    /\ job_row[j] = "none"
    /\ enqueued[j] = "no"
    /\ job_row' = [job_row EXCEPT ![j] = "pending"]
    /\ create_pc' = [create_pc EXCEPT ![j] = "enqueue"]
    /\ UNCHANGED <<cancel_req, qvars, nonJ>>

\* create_job: job_client.enqueue_job(job) returns True and the route
\* answers with the job
create_job_enqueue(j) ==
    /\ create_pc[j] = "enqueue"
    /\ enqueue_job(j, JobCreatePriority, DefaultMaxRetries)

\* create_job: enqueue_job returns False
create_job_enqueue_error(j) ==
    /\ create_pc[j] = "enqueue"
    /\ enqueue_job_error(j)

\* create_job: db.update_job(status=FAILED) after the failed enqueue
create_job_failed(j) ==
    /\ create_pc[j] = "enqueue"
    /\ enqueued[j] = "false"
    /\ create_pc' = [create_pc EXCEPT ![j] = "done"]
    /\ job_row' = [job_row EXCEPT ![j] = "failed"]
    /\ UNCHANGED <<cancel_req, qvars, nonJ>>

\* update_job with status cancelled: get_job_by_id finds the row and
\* db.update_job writes the status
update_job(j) ==
    /\ cancel_req[j].pc = "none"
    /\ job_row[j] # "none"
    /\ job_row' = [job_row EXCEPT ![j] = "cancelled"]
    /\ cancel_req' = [cancel_req EXCEPT ![j] = [pc |-> "queue", during |-> Where(j)]]
    /\ UNCHANGED <<create_pc, qvars, nonJ>>

\* update_job: job_client.cancel_job = update_job_status(CANCELLED), the DEL
\* of the running key
update_job_cancel(j) ==
    /\ cancel_req[j].pc = "queue"
    /\ cancel_req' = [cancel_req EXCEPT ![j].pc = "done"]
    /\ runningKey' = [runningKey EXCEPT ![j] = NoJob]
    /\ ttlOver' = [ttlOver EXCEPT ![j] = FALSE]
    /\ UNCHANGED <<pending, completedKey, failedKey, enqueued>>
    /\ UNCHANGED <<loopVars, cleanVars, timeVars>>
    /\ UNCHANGED <<job_row, create_pc, nonJ>>

\* another producer puts a blob into the pending set whose job_type is none
\* of JobType
zadd_unrecognized(j) ==
    /\ enqueued[j] = "no"
    /\ job_row[j] = "none"
    /\ \A i \in Jobs : i < j => enqueued[i] # "no"
    /\ pending' = zadd(pending,
                       [Blob(j, JobCreatePriority, DefaultMaxRetries, -1)
                           EXCEPT !.job_type = "unknown_type"],
                       priority_score(JobCreatePriority, clock))
    /\ enqueued' = [enqueued EXCEPT ![j] = "other"]
    /\ UNCHANGED <<runningKey, ttlOver, completedKey, failedKey>>
    /\ UNCHANGED <<loopVars, cleanVars, timeVars>>
    /\ UNCHANGED <<jvars, nonJ>>

(***************************************************************************)
(* SpecJobs: jobs are created and cancelled through the routes while the   *)
(* worker loop runs; store calls of the worker may fail.                   *)
(***************************************************************************)
NextJ ==
    \/ \E j \in Jobs : create_job(j)
    \/ \E j \in Jobs : create_job_enqueue(j)
    \/ \E j \in Jobs : create_job_enqueue_error(j)
    \/ \E j \in Jobs : create_job_failed(j)
    \/ \E j \in Jobs : update_job(j)
    \/ \E j \in Jobs : update_job_cancel(j)
    \/ \E j \in Jobs : zadd_unrecognized(j)
    \/ \E l \in Loops : start_worker(l)
    \/ stop_worker
    \/ \E l \in Loops : worker_step(l)
    \/ \E l \in Loops : worker_error(l)

SpecJobs == Init /\ [][NextJ]_vars

(***************************************************************************)
(* FairSpecRows: jobs are created through the route and executed by the    *)
(* worker; nobody cancels and the worker is not stopped.  The event loop   *)
(* schedules the route's coroutine and the worker task, so each next step  *)
(* of either is taken when it stays enabled.  Which store calls fail and   *)
(* how a handler call goes is left open.                                   *)
(***************************************************************************)
NextRows ==
    \/ \E j \in Jobs : create_job(j)
    \/ \E j \in Jobs : create_job_enqueue(j)
    \/ \E j \in Jobs : create_job_enqueue_error(j)
    \/ \E j \in Jobs : create_job_failed(j)
    \/ \E l \in Loops : start_worker(l)
    \/ \E l \in Loops : worker_step(l)
    \/ \E l \in Loops : worker_error(l)

FairSpecRows ==
    /\ Init
    /\ [][NextRows]_vars
    /\ \A l \in Loops : WF_vars(start_worker(l)) /\ WF_vars(worker_step(l))
    /\ \A j \in Jobs : WF_vars(create_job_enqueue(j)) /\ WF_vars(create_job_failed(j))

(***************************************************************************)
(* Part 7.  The module globals filled on first use: _db_instance           *)
(* (api/dependencies/database.py) and _rag_service                         *)
(* (scanner/app/rag/rag_service.py).                                       *)
(*                                                                         *)
(* Both functions assign the new object to the global and then await its   *)
(* initialize().  SQLiteDatabase.initialize awaits the connection, the     *)
(* migrations and the default configuration; RAGService.initialize awaits  *)
(* get_embedding and get_vector_db.  Other requests run at these awaits.   *)
(***************************************************************************)
nonS == <<qvars, pvars, fvars, rvars, lvars, cvars, jvars>>

\* `if <global> is None`: construct, assign, await initialize(); else hand
\* the object of the global to the caller as it is
get_shared(t, g) ==
    /\ spc[t] = "idle"
    /\ sharedCalls < MaxSharedCalls
    /\ sharedCalls' = sharedCalls + 1
    /\ IF shared[g] = "None"
         THEN /\ shared' = [shared EXCEPT ![g] = "initializing"]
              /\ spc' = [spc EXCEPT ![t] = g]
              /\ sgot' = [sgot EXCEPT ![t] = NotAsked]
         ELSE /\ sgot' = [sgot EXCEPT ![t] = [global |-> g, state |-> shared[g]]]
              /\ UNCHANGED <<shared, spc>>
    /\ UNCHANGED nonS

\* get_database: the dependency of the routes
get_database(t) == get_shared(t, "_db_instance")

\* get_rag_service
get_rag_service(t) == get_shared(t, "_rag_service")

\* initialize() returns: the caller that constructed the object gets it
initialize(t) ==
    /\ spc[t] \in Globals
    /\ shared' = [shared EXCEPT ![spc[t]] = "initialized"]
    /\ sgot' = [sgot EXCEPT ![t] = [global |-> spc[t], state |-> "initialized"]]
    /\ spc' = [spc EXCEPT ![t] = "idle"]
    /\ UNCHANGED <<sharedCalls, nonS>>

\* initialize() raises: the exception reaches the caller, the global keeps
\* the object
initialize_error(t) ==
    /\ spc[t] \in Globals
    /\ shared' = [shared EXCEPT ![spc[t]] = "uninitialized"]
    /\ sgot' = [sgot EXCEPT ![t] = [global |-> spc[t], state |-> "raised"]]
    /\ spc' = [spc EXCEPT ![t] = "idle"]
    /\ UNCHANGED <<sharedCalls, nonS>>

NextS ==
    \/ \E t \in Tasks : get_database(t)
    \/ \E t \in Tasks : get_rag_service(t)
    \/ \E t \in Tasks : initialize(t)
    \/ \E t \in Tasks : initialize_error(t)

SpecShared == Init /\ [][NextS]_vars

(***************************************************************************)
(* Claims about the job queue.                                             *)
(***************************************************************************)
Urgency(blob) == PriorityBase(GetPriority(blob))

\* C1: of any two jobs in the pending set, the one of the more urgent
\* priority tier has the strictly lower score, whenever each was enqueued
ClaimC1 ==
    \A a \in pending, b \in pending :
        Urgency(a.member) < Urgency(b.member) => a.score < b.score

\* C2: a job whose handler failed on every attempt and that is recorded
\* under the failed key has retry_count = max_retries and was executed
\* max_retries + 1 times
ClaimC2 ==
    \A j \in Jobs :
        (enqueued[j] = "true" /\ failedKey[j] # NoJob /\ ~succeeded[j]) =>
            /\ GetInt(failedKey[j].retry_count, 0)
                   = GetInt(failedKey[j].max_retries, DefaultMaxRetries)
            /\ execCount[j] = GetInt(failedKey[j].max_retries, DefaultMaxRetries) + 1

\* C3: every job for which enqueue_job returned true is eventually passed
\* to the handler
ClaimC3 == \A j \in Jobs : (enqueued[j] = "true") ~> (execCount[j] > 0)

\* all pending entries were scored within less than one divisor of time
ShortWindow(set) ==
    \A a \in set, b \in set : TimestampTerm(a) - TimestampTerm(b) < Divisor

\* C8: when the pending jobs were all enqueued within a short time window,
\* a dequeue returns a job of the most urgent tier present
TheoremC8 ==
    [][\A l \in Loops :
          (pc[l] = "zpopmin" /\ pc'[l] = "setex" /\ ShortWindow(pending)) =>
              \A e \in pending : Urgency(held'[l]) <= Urgency(e.member)]_vars

\* an urgent job was dequeued ahead of a low job that was enqueued before it
WitnessC8 ==
    \E l \in Loops :
        /\ pc[l] = "setex"
        /\ held[l].priority = "urgent"
        /\ \E e \in pending :
              /\ e.member.priority = "low"
              /\ e.member.id < held[l].id
              /\ clock - TimestampTerm(e) < Divisor

(***************************************************************************)
(* Claims about project membership and authorization.                      *)
(***************************************************************************)
Owners(p) ==
    {u \in db_get_project_users(p) : project_users[<<p, u>>].role = "owner"}

\* the step answers a removal request of caller u for member t of project p
RemovalAnswered(u, p, t) ==
    /\ req[u].op = "remove_user_from_project"
    /\ req[u].project = p
    /\ req[u].target = t
    /\ req'[u] = NoReq

ProjectScopedRoutes ==
    {"get_project", "get_project_jobs", "update_project", "delete_project",
     "add_user_to_project", "update_user_project_role",
     "remove_user_from_project", "delete_node", "update_node_metadata",
     "delete_node_with_body"}

\* C4: every project that exists has at least one active membership with
\* role owner, whatever membership requests were made and however they
\* interleaved
ClaimC4 ==
    \A p \in Projects : projects[p] # "none" => Owners(p) # {}

\* C5: when a project has exactly one active owner, a request to remove
\* that owner is answered with a rejection and the owner's membership is
\* still active afterwards, whoever the caller is
ClaimC5 ==
    [][\A u \in Users, p \in Projects, t \in Users :
          (Owners(p) = {t} /\ RemovalAnswered(u, p, t)) =>
              (resp'.code # 200 /\ project_users'[<<p, t>>].is_active)]_vars

\* C6: a project goes from active to inactive only in a request whose
\* caller has role owner in the project
ClaimC6 ==
    [][\A p \in Projects :
          (projects[p] = "active" /\ projects'[p] = "inactive") =>
              resp'.user_role = "owner"]_vars

\* C7: a request to a project-scoped route, the node endpoints for a node
\* of the project included, by a caller without an active membership in
\* the project is answered 404
ClaimC7 ==
    [][(/\ requests' = requests + 1
        /\ req' = req
        /\ resp'.route \in ProjectScopedRoutes
        /\ resp'.project \in Projects
        /\ get_user_project_role(resp'.project, resp'.caller) = "none")
           => resp'.code = 404]_vars

ShortPython(ing) ==
    /\ ing.file.ext = "py"
    /\ LET Sum[k \in 0..Len(ing.doc)] ==
                IF k = 0 THEN 0 ELSE Sum[k - 1] + ing.doc[k] + (IF k > 1 THEN 1 ELSE 0)
       IN Sum[Len(ing.doc)] <= CHUNK_SIZE

\* the function's name: the token after "def" at the head of the document
FunctionName(file) == file.id * TokenBase + 2

\* C10: once a short Python document was ingested under a project, every
\* search scoped to that project with score threshold 0 returns a result
\* of that file whose content contains the function's name
ClaimC10 ==
    \A ing \in ingests :
        (/\ ShortPython(ing)
         /\ response.kind = "search"
         /\ response.project = ing.project
         /\ response.score_threshold = 0) =>
            \E r \in response.results :
                /\ r.file_name = ing.file.id
                /\ \E i \in DOMAIN r.content : r.content[i] = FunctionName(ing.file)

(***************************************************************************)
(* Claims about the data lake.                                             *)
(***************************************************************************)
\* the last data-lake call was a store that returned an entry
StoreReturned == lake_response.op = "store" /\ lake_response.error = "none"

CallerKeys(metadata) == IF metadata = NoneDict THEN {} ELSE DOMAIN metadata

\* C11: right after a store returns, retrieve of the returned id, through any
\* lake object on the same base path, returns exactly the content stored.
ClaimC11 ==
    StoreReturned =>
        \A l \in Lakes :
            /\ retrieve(l, lake_response.id).error = "none"
            /\ retrieve(l, lake_response.id).content = lake_response.arg_content

\* C12: right after a store returns, retrieve_by_path of the returned
\* file_path returns the entry with the id store returned.
ClaimC12 ==
    StoreReturned =>
        \A l \in Lakes : \A r \in retrieve_by_path(l, lake_response.file_path) :
            r.error = "none" /\ r.id = lake_response.id

\* C13: right after a store returns, the metadata retrieve returns holds
\* every caller-supplied key with the caller's value and the four injected
\* keys.
ClaimC13 ==
    StoreReturned =>
        LET m == retrieve(1, lake_response.id).metadata
        IN  /\ InjectedKeys \subseteq DOMAIN m
            /\ \A k \in CallerKeys(lake_response.arg_metadata) :
                   k \in DOMAIN m /\ m[k] = lake_response.arg_metadata[k]

\* C14: a store that raises a validation error leaves the file system as it
\* was: no file or directory is created, changed or removed.
ClaimC14 ==
    [][(/\ lakeOps' = lakeOps + 1
        /\ lake_response'.op = "store"
        /\ lake_response'.error = "ValidationError")
       => <<dirs, files, metadata_files>>' = <<dirs, files, metadata_files>>]_vars

\* C15: delete always returns a boolean, true when the side-car or the
\* content file of the id existed and false when neither did, and whichever
\* of the two existed is removed.
ClaimC15 ==
    [][(lakeOps' = lakeOps + 1 /\ lake_response'.op = "delete") =>
        LET id == lake_response'.id
            sidecar == metadata_files[id] # NoSideCar
            content == sidecar /\ files[metadata_files[id].file_path] # NoFile
        IN  /\ lake_response'.error = "none"
            /\ lake_response'.result = (sidecar \/ content)
            /\ metadata_files'[id] = NoSideCar
            /\ sidecar => files'[metadata_files[id].file_path] = NoFile]_vars

(***************************************************************************)
(* Claims about the chunker.                                               *)
(***************************************************************************)
\* the last n tokens of a text
LastTokens(text, n) == SubSeq(text, Len(text) - n + 1, Len(text))

\* C16: when a document gives two or more chunks, the last CHUNK_OVERLAP
\* tokens of every emitted chunk are a prefix of the chunk emitted next.
ClaimC16 ==
    Len(chunked.chunks) >= 2 =>
        \A k \in 1..(Len(chunked.chunks) - 1) :
            StartsWith(chunked.chunks[k + 1],
                       LastTokens(chunked.chunks[k], CHUNK_OVERLAP))

ClaimC18 ==
    [][\A j \in Jobs :
          (enqueued[j] = "no" /\ enqueued'[j] = "true") => job_row'[j] = "queued"]_vars

\* C20: when a job's row was cancelled while its handler was executing, the
\* report the worker makes when the handler has finished is recorded: the
\* job is under the completed or the failed key when _finish_job returns
\* (no store call having failed).
ClaimC20 ==
    [][\A l \in Loops :
          (/\ held[l].id \in Jobs
           /\ cancel_req[held[l].id].during = "handler"
           /\ pc[l] \in {"finish_get", "finish_setex", "finish_delete"}
           /\ pc'[l] = "loop"
           /\ failures' = 0)
          => \/ completedKey'[held[l].id] # NoJob
             \/ failedKey'[held[l].id] # NoJob]_vars

\* a start_worker call that has entered the loop and has not returned
InLoop(l) == pc[l] \notin {"idle", "returned", "stopped"}

\* C19: once stop_worker has cleared the flag of a client whose loop is
\* running, that start_worker call eventually returns.
ClaimC19 ==
    \A l \in StartCalls : (InLoop(l) /\ ~running) ~> (pc[l] = "stopped")

(***************************************************************************)
(* Claims about finalization, cancellation and the worker flag.            *)
(***************************************************************************)
\* C21: once the handler of a job has returned successfully, the job is not
\* handed to a handler again, is not put back into the pending set and is
\* not recorded under the failed key, however cleanup_expired_jobs
\* interleaves with the worker.
ClaimC21 ==
    [][\A j \in Jobs :
          succeeded'[j] =>
              /\ (succeeded[j] => execCount'[j] = execCount[j])
              /\ failedKey'[j] = NoJob
              /\ \A e \in pending' : e.member.id # j]_vars

\* the cancelling request of job j was made while j was in the pending set
\* and has returned
CancelledWhilePending(j) ==
    cancel_req[j].pc = "done" /\ cancel_req[j].during = "pending"

\* C22: a job whose cancellation completed while it was in the pending set
\* is neither dequeued by a worker nor passed to the handler afterwards.
ClaimC22 ==
    [][\A l \in Loops :
          /\ (pc[l] = "zpopmin" /\ pc'[l] = "setex") =>
                 ~CancelledWhilePending(held'[l].id)
          /\ (pc[l] = "handler" /\ pc'[l] = "finish_get") =>
                 ~CancelledWhilePending(held[l].id)]_vars

\* the start_worker calls that are in their loop
LoopsRunning == {l \in StartCalls : InLoop(l)}

\* C23: two loops are in their loop on one client at most for the time the
\* earlier one needs to reach its next check of the flag: whenever two are
\* running, eventually at most one is.
ClaimC23 ==
    (Cardinality(LoopsRunning) > 1) ~> (Cardinality(LoopsRunning) <= 1)

\* the places of the queue store in which job j is present
Places(j) ==
    (IF \E e \in pending : e.member.id = j THEN {"pending"} ELSE {})
    \cup (IF runningKey[j] # NoJob THEN {"running"} ELSE {})
    \cup (IF completedKey[j] # NoJob THEN {"completed"} ELSE {})
    \cup (IF failedKey[j] # NoJob THEN {"failed"} ELSE {})

\* C24: in every state each job id is in at most one of the pending set,
\* its running key, its completed key and its failed key, and at most once
\* in the pending set.
ClaimC24 ==
    \A j \in Jobs :
        /\ Cardinality(Places(j)) <= 1
        /\ Cardinality({e \in pending : e.member.id = j}) <= 1

(***************************************************************************)
(* Claims about the module globals filled on first use.                    *)
(***************************************************************************)
\* C25: every object get_database or get_rag_service hands to a caller has
\* completed its initialize().
ClaimC25 ==
    \A t \in Tasks :
        sgot[t].global \in Globals => sgot[t].state \in {"initialized", "raised"}

\* C27: a job is stored under the completed key only when its handler did
\* the work: a job whose work failed is never written there.
ClaimC27 ==
    [][\A j \in Jobs :
          (completedKey[j] = NoJob /\ completedKey'[j] # NoJob) => succeeded[j]]_vars

\* C26: the row of a job the worker has recorded under the completed key
\* eventually has status completed, and the row of a job recorded under the
\* failed key eventually has status failed.
ClaimC26 ==
    \A j \in Jobs :
        /\ (job_row[j] # "none" /\ completedKey[j] # NoJob) ~> (job_row[j] = "completed")
        /\ (job_row[j] # "none" /\ failedKey[j] # NoJob) ~> (job_row[j] = "failed")

(***************************************************************************)
(* Further claims about project membership.                                *)
(***************************************************************************)
\* C28: a removal request of a caller who is owner or admin, for another
\* active member who is not an owner, is answered 200 and leaves that
\* membership inactive, however many owners the project has.
ClaimC28 ==
    [][\A u \in Users, p \in Projects, t \in Users :
          (/\ RemovalAnswered(u, p, t)
           /\ t # u
           /\ req[u].user_role \in {"owner", "admin"}
           /\ get_user_project_role(p, u) = req[u].user_role
           /\ get_user_project_role(p, t) \in {"admin", "member", "viewer"})
          => (resp'.code = 200 /\ ~project_users'[<<p, t>>].is_active)]_vars

(***************************************************************************)
(* Further claims about the retrieval service and the data lake.           *)
(***************************************************************************)
\* C29: every result of a search scoped to a project is a chunk that was
\* ingested under that project (names that differ only in what
\* _normalize_collection_name folds together count as the same project).
ClaimC29 ==
    (response.kind = "search" /\ response.project # <<>>) =>
        \A r \in response.results :
            Normalize(r.project) = Normalize(response.project)

\* C30: a store or delete leaves what retrieve returns for every other
\* existing entry id as it was.
ClaimC30 ==
    [][\A e \in EntryIds :
          (/\ lakeOps' = lakeOps + 1
           /\ lake_response'.op \in {"store", "delete"}
           /\ lake_response'.id # e
           /\ metadata_files[e] # NoSideCar)
          => retrieve(1, e)' = retrieve(1, e)]_vars

====
